---- MODULE Spec2Model ----
(***************************************************************************)
(* Model of the proxy service lifecycle of echo-proxy                      *)
(* (src/userData/init.go, package service): Service.StartServer,           *)
(* Service.ShutdownServer, Service.GetServerStatus and the two startup     *)
(* goroutines startHttpServer / startTlsServer.                            *)
(*                                                                         *)
(* The lifecycle methods are invoked one at a time by one caller; the      *)
(* goroutines they spawn (two startup/serve tasks per StartServer, one     *)
(* hosts-file task per call) run concurrently with the caller and with     *)
(* each other and outlive the call that spawned them.  Library calls       *)
(* (net.Listen, http.Server.Serve, http.Server.Shutdown) are modelled by   *)
(* their documented effect on the listener and on the server object; what  *)
(* they return is an input drawn from the outcomes they can produce.       *)
(*                                                                         *)
(* Spec and FairSpec follow the lifecycle.  TargetSpec applies             *)
(* makeTargetMap and the Director to every configuration and request of    *)
(* the bounded sets, LoaderSpec runs loadTLSConfig as startTlsServer calls *)
(* it, FileSpec applies WriteHostsFile (src/unnamed/part_000), and         *)
(* ProxySpec follows the requests of the listeners through the lifecycle.  *)
(***************************************************************************)
EXTENDS Integers, Sequences, FiniteSets, TLC

\* Number of lifecycle calls (StartServer or ShutdownServer) in one behaviour.
MaxCalls == 3

\* Number of lifecycle calls in one behaviour of the fair specification.
MaxFairCalls == 2

\* Number of lifecycle calls in one behaviour of the specification that
\* follows the requests.
MaxProxyCalls == 2

\* Number of host entries in the configuration read by loadTLSConfig.
MaxHosts == 2

\* Number of domains passed to WriteHostsFile, and of lines the hosts file
\* holds before the call.
MaxDomains == 2

\* wg.Add(2): the two participants of the startup barrier.
WgParticipants == 2

HTTP == "HTTP"
TLS == "TLS"
Proto == {HTTP, TLS}
Calls == 1..MaxCalls

Other(p) == IF p = HTTP THEN TLS ELSE HTTP

VARIABLES
  callerPc,       \* the caller: "idle", "wait" (at wg.Wait), "shutTls", "shutRet"
  nCalls,         \* lifecycle calls begun so far; the current call is nCalls
  curKind,        \* the current (or last returned) call: "none", "start", "shutdown"
  ret,            \* what the last StartServer returned: "none", "true", "false"
  wg,             \* wg[c]: counter of the WaitGroup local to StartServer call c
  serverRunning,  \* serverRunning[p]: s.httpServerRunning / s.tlsServerRunning
  server,         \* server[p]: s.httpServer / s.tlsServer; 0 is nil, c the server made by call c
  pc,             \* pc[p, c]: position of the startup goroutine of protocol p spawned by call c
  bind,           \* bind[p, c]: "pending", "bound", "failed" or "skipped"
  lst,            \* lst[p, c]: the listener of server (p, c): "none", "open", "closed"
  inShutdown,     \* inShutdown[p, c]: http.Server.Shutdown was called on server (p, c)
  emitted,        \* emitted[p, c]: errors sent to the frontend for protocol p by call c
  hostsTask,      \* the hosts-file goroutine of the current call: "none", "pending", "failed"
  pre,            \* the Service as the current call found it
  step,           \* position of the operation applied to the data below
  hosts,          \* config.Hosts
  targetMap,      \* s.targetMap: a function from its keys to the parsed targets
  req,            \* the request a listener received
  outreq,         \* the outgoing request the proxy hands to the Director
  hostIdx,        \* loadTLSConfig: the entry the loop is at
  certificates,   \* tlsConfig.Certificates: the entries whose pair was appended
  warnings,       \* the entries emitWarningToFrontend was called for
  hostsFile,      \* /etc/hosts: its lines
  prevHostsFile,  \* /etc/hosts as it was when WriteHostsFile was called
  domains,        \* the argument of WriteHostsFile
  data,           \* WriteHostsFile: the buffer, as the pieces written to it
  mapOwner,       \* the StartServer call that made the map s.targetMap points to; 0: none
  slots           \* slots[r]: the request r in flight, or the free slot

\* The lifecycle state of the Service.
lifeVars == <<callerPc, nCalls, curKind, ret, wg, serverRunning, server, pc, bind,
              lst, inShutdown, emitted, hostsTask, pre>>

\* The registry and a request.
targetVars == <<targetMap, req, outreq>>

\* The TLS Material Loader.
loaderVars == <<hostIdx, certificates, warnings>>

\* The hosts file and a call of WriteHostsFile.
fileVars == <<hostsFile, prevHostsFile, domains, data>>

\* The requests in flight and the registry they are resolved against.
proxyVars == <<mapOwner, slots>>

\* The data the lifecycle steps leave alone.
dataVars == <<step, hosts, targetVars, loaderVars, fileVars, proxyVars>>

vars == <<lifeVars, dataVars>>

----------------------------------------------------------------------------
\* Host entries and the TLS Material Loader.

\* A host entry as loadTLSConfig reads it; loadable is what tls.LoadX509KeyPair
\* makes of the two files.
HostConfigs ==
  [EnableTLS : BOOLEAN, hasCert : BOOLEAN, hasKey : BOOLEAN, loadable : BOOLEAN]

RECURSIVE SeqsUpTo(_, _)
SeqsUpTo(S, n) ==
  IF n = 0 THEN {<<>>}
  ELSE SeqsUpTo(S, n - 1) \cup [1..n -> S]

\* config.Hosts at the time a startup task reads it.
ConfigHosts == SeqsUpTo(HostConfigs, MaxHosts)

\* Number of certificates loadTLSConfig appends for the entries hs.
RECURSIVE loadTLSConfig(_)
loadTLSConfig(hs) ==
  IF hs = <<>> THEN 0
  ELSE LET h == Head(hs)
           rest == loadTLSConfig(Tail(hs))
       IN IF h.EnableTLS /\ h.hasCert /\ h.hasKey
          THEN (IF h.loadable THEN 1 ELSE 0) + rest
          ELSE rest

\* len(tlsConfig.Certificates) over the configurations.
CertCounts == {loadTLSConfig(hs) : hs \in ConfigHosts}

----------------------------------------------------------------------------
\* Helpers over the state.

AnyOpen(p) == \E c \in Calls : lst[p, c] = "open"

\* The map GetServerStatus returns (lines 177-182).
GetServerStatus == [p \in Proto |-> serverRunning[p]]

\* What a lifecycle call finds: the flags, per protocol whether a listener of
\* this Service is open, and whether the call before it was a ShutdownServer.
Found ==
  [ running  |-> serverRunning,
    open     |-> [p \in Proto |-> AnyOpen(p)],
    shutdown |-> curKind = "shutdown" ]

NotFound ==
  [ running  |-> [p \in Proto |-> FALSE],
    open     |-> [p \in Proto |-> FALSE],
    shutdown |-> FALSE ]

\* A new Service: no call was made, no handle is held, nothing is bound.
LifeInit ==
  /\ callerPc = "idle"
  /\ nCalls = 0
  /\ curKind = "none"
  /\ ret = "none"
  /\ wg = [c \in Calls |-> 0]
  /\ serverRunning = [p \in Proto |-> FALSE]
  /\ server = [p \in Proto |-> 0]
  /\ pc = [p \in Proto, c \in Calls |-> "none"]
  /\ bind = [p \in Proto, c \in Calls |-> "pending"]
  /\ lst = [p \in Proto, c \in Calls |-> "none"]
  /\ inShutdown = [p \in Proto, c \in Calls |-> FALSE]
  /\ emitted = [p \in Proto, c \in Calls |-> 0]
  /\ hostsTask = "none"
  /\ pre = NotFound

\* A request with nothing set.
NoRequest == [Host |-> "", Scheme |-> "", URLHost |-> "", Path |-> "", RawQuery |-> ""]

\* A map with no key: a nil map, or the result of make(map[string]*url.URL).
EmptyMap == [k \in {} |-> NoRequest]

\* No registry was built and no request was received.
TargetIdle ==
  /\ targetMap = EmptyMap
  /\ req = NoRequest
  /\ outreq = NoRequest

\* The lifecycle of a new Service; the content of the registry and the
\* requests are followed in the specifications further down.
\* loadTLSConfig is not running.
LoaderIdle ==
  /\ hostIdx = 0
  /\ certificates = <<>>
  /\ warnings = <<>>

\* WriteHostsFile is not running.
FileIdle ==
  /\ hostsFile = <<>>
  /\ prevHostsFile = <<>>
  /\ domains = <<>>
  /\ data = <<>>

\* The requests a Service handles at a time.
ReqIds == {"r1", "r2"}

\* A slot with no request in it.
FreeSlot ==
  [stage |-> "free", c |-> 0, err |-> "", status |-> 0, body |-> <<>>]

\* No request is in flight and no registry was built.
ProxyIdle ==
  /\ mapOwner = 0
  /\ slots = [r \in ReqIds |-> FreeSlot]

Init ==
  /\ LifeInit
  /\ step = "none"
  /\ hosts = <<>>
  /\ TargetIdle
  /\ LoaderIdle
  /\ FileIdle
  /\ ProxyIdle

\* What a step of a startup goroutine leaves alone: the caller's variables
\* and the data.
callerVars == <<callerPc, nCalls, curKind, ret, hostsTask, pre, dataVars>>

\* A goroutine's record (the outcome of its bind, its listener, what it
\* reported) is history once the goroutine has ended and the call that spawned
\* it has returned; nothing reads it from then on, and it is dropped.
Dropped(f, c, none) == [q \in Proto, d \in Calls |-> IF d = c /\ pc[q, d] \in {"none", "end"} THEN none ELSE f[q, d]]

DropRecords(c) ==
  /\ bind' = Dropped(bind, c, "pending")
  /\ lst' = Dropped(lst, c, "none")
  /\ inShutdown' = Dropped(inShutdown, c, FALSE)
  /\ emitted' = Dropped(emitted, c, 0)

----------------------------------------------------------------------------
\* Library calls.

\* net.Listen / tls.Listen on the configured port: the outcomes it can have.
\* A port on which this process already holds an open listener cannot be
\* bound again; any bind can fail for reasons outside the program.
BindOutcomes(p) == IF AnyOpen(p) THEN {FALSE} ELSE BOOLEAN

\* ServerShutdown returning an error also when it has no listener to close.
ServerShutdown_AlwaysReports(p, h, c) ==
  /\ inShutdown' = [inShutdown EXCEPT ![p, h] = TRUE]
  /\ lst' = IF pc[p, h] = "serving" /\ lst[p, h] = "open"
            THEN [lst EXCEPT ![p, h] = "closed"]
            ELSE lst
  /\ emitted' = [emitted EXCEPT ![p, c] = @ + 1]

\* (*http.Server).Shutdown on server (p, h), called by lifecycle call c:
\* the server is marked as shutting down and the listener its Serve call
\* tracks is closed; closing may return an error, which is reported.
ServerShutdown(p, h, c) ==
  /\ inShutdown' = [inShutdown EXCEPT ![p, h] = TRUE]
  /\ IF pc[p, h] = "serving" /\ lst[p, h] = "open"
     THEN /\ lst' = [lst EXCEPT ![p, h] = "closed"]
          /\ \E err \in BOOLEAN :
               emitted' = [emitted EXCEPT ![p, c] = IF err THEN @ + 1 ELSE @]
     ELSE UNCHANGED <<lst, emitted>>

\* A lifecycle call begins.
BeginCall(k) ==
  /\ callerPc = "idle"
  /\ nCalls < MaxCalls
  /\ nCalls' = nCalls + 1
  /\ curKind' = k
  /\ ret' = "none"
  /\ pre' = Found

----------------------------------------------------------------------------
\* StartServer (the caller's side).

\* Line 151: the value StartServer returns.
StartServerResult == serverRunning[HTTP] \/ serverRunning[TLS]

\* Lines 112-147: spawn the hosts-file goroutine, build the target map and
\* the proxy, wg.Add(2), spawn the two startup goroutines.
StartServer_Begin ==
  /\ BeginCall("start")
  /\ hostsTask' = "pending"
  /\ wg' = [wg EXCEPT ![nCalls + 1] = WgParticipants]
  /\ pc' = [pc EXCEPT ![HTTP, nCalls + 1] = "new", ![TLS, nCalls + 1] = "new"]
  /\ callerPc' = "wait"
  /\ UNCHANGED <<serverRunning, server, bind, lst, inShutdown, emitted, dataVars>>

\* StartServer_Return without the barrier: the return does not wait.
StartServer_Return_NoWait ==
  /\ callerPc = "wait"
  /\ ret' = IF StartServerResult THEN "true" ELSE "false"
  /\ callerPc' = "idle"
  /\ pre' = NotFound
  /\ DropRecords(nCalls)
  /\ UNCHANGED <<nCalls, curKind, wg, serverRunning, server, pc, hostsTask, dataVars>>

\* Lines 149-151: wg.Wait() returns once the counter is zero; return the
\* disjunction of the two flags.
StartServer_Return ==
  /\ callerPc = "wait"
  /\ wg[nCalls] = 0
  /\ ret' = IF StartServerResult THEN "true" ELSE "false"
  /\ callerPc' = "idle"
  /\ pre' = NotFound
  /\ DropRecords(nCalls)
  /\ UNCHANGED <<nCalls, curKind, wg, serverRunning, server, pc, hostsTask, dataVars>>

----------------------------------------------------------------------------
\* The startup goroutines.

\* Lines 235-240 and 267-272: the bind attempt of server (p, c).
Listen(p, c) ==
  \/ /\ TRUE \in BindOutcomes(p)
     /\ lst' = [lst EXCEPT ![p, c] = "open"]
     /\ bind' = [bind EXCEPT ![p, c] = "bound"]
     /\ pc' = [pc EXCEPT ![p, c] = "bound"]
     /\ UNCHANGED <<emitted, wg>>
  \/ /\ FALSE \in BindOutcomes(p)
     /\ emitted' = [emitted EXCEPT ![p, c] = @ + 1]
     /\ wg' = [wg EXCEPT ![c] = @ - 1]
     /\ bind' = [bind EXCEPT ![p, c] = "failed"]
     /\ pc' = [pc EXCEPT ![p, c] = "end"]
     /\ UNCHANGED lst

\* startHttpServer, lines 227-240: make the server, store the handle, bind.
startHttpServer_Listen(c) ==
  /\ pc[HTTP, c] = "new"
  /\ server' = [server EXCEPT ![HTTP] = c]
  /\ Listen(HTTP, c)
  /\ UNCHANGED <<callerVars, serverRunning, inShutdown>>

\* startTlsServer, lines 251-257: no certificate was loaded: clear the flag,
\* release the barrier, leave.
startTlsServer_Skip(c) ==
  /\ pc[TLS, c] = "new"
  /\ 0 \in CertCounts
  /\ serverRunning' = [serverRunning EXCEPT ![TLS] = FALSE]
  /\ wg' = [wg EXCEPT ![c] = @ - 1]
  /\ bind' = [bind EXCEPT ![TLS, c] = "skipped"]
  /\ pc' = [pc EXCEPT ![TLS, c] = "end"]
  /\ UNCHANGED <<callerVars, server, lst, inShutdown, emitted>>

\* startTlsServer, lines 251-272: certificates were loaded: make the server,
\* store the handle, bind.
startTlsServer_Listen(c) ==
  /\ pc[TLS, c] = "new"
  /\ \E n \in CertCounts : n > 0
  /\ server' = [server EXCEPT ![TLS] = c]
  /\ Listen(TLS, c)
  /\ UNCHANGED <<callerVars, serverRunning, inShutdown>>

\* SetRunning without wg.Done(): a goroutine that bound its listener does not
\* release the barrier.
SetRunning_NoDone(p, c) ==
  /\ pc[p, c] = "bound"
  /\ serverRunning' = [serverRunning EXCEPT ![p] = TRUE]
  /\ pc' = [pc EXCEPT ![p, c] = "serve"]
  /\ UNCHANGED <<callerVars, wg, server, bind, lst, inShutdown, emitted>>

\* Lines 241-242 and 273-274: set the running flag, release the barrier.
SetRunning(p, c) ==
  /\ pc[p, c] = "bound"
  /\ serverRunning' = [serverRunning EXCEPT ![p] = TRUE]
  /\ wg' = [wg EXCEPT ![c] = @ - 1]
  /\ pc' = [pc EXCEPT ![p, c] = "serve"]
  /\ UNCHANGED <<callerVars, server, bind, lst, inShutdown, emitted>>

\* Lines 243 and 275, entering Serve: a server already shutting down refuses
\* the listener (ErrServerClosed) and closes it; otherwise the listener is
\* tracked and the accept loop runs.
ServeBegin(p, c) ==
  /\ pc[p, c] = "serve"
  /\ IF inShutdown[p, c]
     THEN /\ lst' = [lst EXCEPT ![p, c] = "closed"]
          /\ pc' = [pc EXCEPT ![p, c] = "clear"]
     ELSE /\ pc' = [pc EXCEPT ![p, c] = "serving"]
          /\ UNCHANGED lst
  /\ UNCHANGED <<callerVars, wg, serverRunning, server, bind, inShutdown, emitted>>

\* ServeReturn without the errors.Is(err, http.ErrServerClosed) test: every
\* return of Serve is reported.
ServeReturn_ReportsClosed(p, c) ==
  /\ pc[p, c] = "serving"
  /\ lst' = [lst EXCEPT ![p, c] = "closed"]
  /\ emitted' = [emitted EXCEPT ![p, c] = @ + 1]
  /\ pc' = [pc EXCEPT ![p, c] = "clear"]
  /\ UNCHANGED <<callerVars, wg, serverRunning, server, bind, inShutdown>>

\* Lines 243-246 and 275-278, Serve returning: with ErrServerClosed once
\* Shutdown closed the listener (nothing is reported), or with a listener
\* error, which closes the listener and is reported.
ServeReturn(p, c) ==
  /\ pc[p, c] = "serving"
  /\ \/ /\ lst[p, c] = "closed"
        /\ UNCHANGED <<lst, emitted>>
     \/ /\ lst[p, c] = "open"
        /\ lst' = [lst EXCEPT ![p, c] = "closed"]
        /\ emitted' = [emitted EXCEPT ![p, c] = @ + 1]
  /\ pc' = [pc EXCEPT ![p, c] = "clear"]
  /\ UNCHANGED <<callerVars, wg, serverRunning, server, bind, inShutdown>>

\* Lines 247 and 279: clear the running flag; the goroutine ends.
ClearRunning(p, c) ==
  /\ pc[p, c] = "clear"
  /\ serverRunning' = [serverRunning EXCEPT ![p] = FALSE]
  /\ pc' = [pc EXCEPT ![p, c] = "end"]
  /\ IF c = nCalls /\ callerPc = "wait"
     THEN UNCHANGED <<bind, lst, inShutdown, emitted>>
     ELSE /\ bind' = [bind EXCEPT ![p, c] = "pending"]
          /\ lst' = [lst EXCEPT ![p, c] = "none"]
          /\ inShutdown' = [inShutdown EXCEPT ![p, c] = FALSE]
          /\ emitted' = [emitted EXCEPT ![p, c] = 0]
  /\ UNCHANGED <<callerVars, wg, server>>

----------------------------------------------------------------------------
\* ShutdownServer.

\* ShutdownProto without the assignment of false to the running flag.
ShutdownProto_KeepFlag(p, c) ==
  IF server[p] # 0
  THEN /\ ServerShutdown(p, server[p], c)
       /\ UNCHANGED serverRunning
  ELSE UNCHANGED <<inShutdown, lst, emitted, serverRunning>>

\* Lines 155-161 and 162-168: shut the server of protocol p down, if the
\* Service holds one, and clear the flag.
ShutdownProto(p, c) ==
  IF server[p] # 0
  THEN /\ ServerShutdown(p, server[p], c)
       /\ serverRunning' = [serverRunning EXCEPT ![p] = FALSE]
  ELSE UNCHANGED <<inShutdown, lst, emitted, serverRunning>>

\* Lines 154-161.
ShutdownServer_Http ==
  /\ BeginCall("shutdown")
  /\ ShutdownProto(HTTP, nCalls + 1)
  /\ hostsTask' = "none"
  /\ callerPc' = "shutTls"
  /\ UNCHANGED <<wg, server, pc, bind, dataVars>>

\* Lines 162-168.
ShutdownServer_Tls ==
  /\ callerPc = "shutTls"
  /\ ShutdownProto(TLS, nCalls)
  /\ callerPc' = "shutRet"
  /\ UNCHANGED <<nCalls, curKind, ret, wg, server, pc, bind, hostsTask, pre, dataVars>>

\* Lines 170-175: spawn the hosts-file goroutine and return.
ShutdownServer_Return ==
  /\ callerPc = "shutRet"
  /\ hostsTask' = "pending"
  /\ callerPc' = "idle"
  /\ DropRecords(nCalls)
  /\ UNCHANGED <<nCalls, curKind, ret, wg, serverRunning, server, pc, pre, dataVars>>

----------------------------------------------------------------------------
\* The hosts-file goroutine.

\* Lines 113-117 and 170-174: addHostsFileRecord / removeHostsFileRecord of
\* the current call returns; an error is sent to the frontend.  (The
\* goroutine of an earlier call touches nothing of the Service and is not
\* followed once the next call has begun.)
HostsFileTask ==
  /\ hostsTask = "pending"
  /\ \E err \in BOOLEAN : hostsTask' = IF err THEN "failed" ELSE "none"
  /\ UNCHANGED <<callerPc, nCalls, curKind, ret, wg, serverRunning, server,
                 pc, bind, lst, inShutdown, emitted, pre, dataVars>>

----------------------------------------------------------------------------

Next ==
  \/ StartServer_Begin
  \/ StartServer_Return
  \/ \E c \in Calls : startHttpServer_Listen(c)
  \/ \E c \in Calls : startTlsServer_Skip(c)
  \/ \E c \in Calls : startTlsServer_Listen(c)
  \/ \E p \in Proto, c \in Calls : SetRunning(p, c)
  \/ \E p \in Proto, c \in Calls : ServeBegin(p, c)
  \/ \E p \in Proto, c \in Calls : ServeReturn(p, c)
  \/ \E p \in Proto, c \in Calls : ClearRunning(p, c)
  \/ ShutdownServer_Http
  \/ ShutdownServer_Tls
  \/ ShutdownServer_Return
  \/ HostsFileTask

Spec == Init /\ [][Next]_vars

\* The goroutines run whenever they can; a bind call, once made, returns.
\* Nothing makes a serve loop end.
FairNext ==
  \/ nCalls < MaxFairCalls /\ StartServer_Begin
  \/ StartServer_Return
  \/ \E c \in Calls : startHttpServer_Listen(c)
  \/ \E c \in Calls : startTlsServer_Skip(c)
  \/ \E c \in Calls : startTlsServer_Listen(c)
  \/ \E p \in Proto, c \in Calls : SetRunning(p, c)
  \/ \E p \in Proto, c \in Calls : ServeBegin(p, c)
  \/ \E p \in Proto, c \in Calls : ServeReturn(p, c)
  \/ \E p \in Proto, c \in Calls : ClearRunning(p, c)
  \/ nCalls < MaxFairCalls /\ ShutdownServer_Http
  \/ ShutdownServer_Tls
  \/ ShutdownServer_Return
  \/ HostsFileTask

FairSpec ==
  /\ Init
  /\ [][FairNext]_vars
  /\ WF_vars(\E c \in Calls : startHttpServer_Listen(c))
  /\ WF_vars(\E c \in Calls : startTlsServer_Skip(c) \/ startTlsServer_Listen(c))
  /\ WF_vars(\E p \in Proto, c \in Calls : SetRunning(p, c))
  /\ WF_vars(StartServer_Return)

----------------------------------------------------------------------------
\* The Target Registry and the Director.

\* Host names as configured and as requested, and strings.ToLower on them.
HostNames == {"app.test", "App.Test", "api.test"}

RequestHosts == HostNames \cup {"other.test"}

ToLower(str) == IF str = "App.Test" THEN "app.test" ELSE str

\* Values of defaultTarget: empty, two absolute URLs, a relative reference
\* (no scheme) and a string url.Parse rejects (missing ']' in host).
Targets == {"", "http://up.test:8080", "https://sec.test/base", "up.test/api", "http://[::1"}

\* url.Parse on these strings: the error, and the fields of the *url.URL.
Parse(t) ==
  CASE t = "http://up.test:8080" ->
         [err |-> FALSE, Scheme |-> "http", Host |-> "up.test:8080", Path |-> ""]
    [] t = "https://sec.test/base" ->
         [err |-> FALSE, Scheme |-> "https", Host |-> "sec.test", Path |-> "/base"]
    [] t = "up.test/api" ->
         [err |-> FALSE, Scheme |-> "", Host |-> "", Path |-> "up.test/api"]
    [] t = "" ->
         [err |-> FALSE, Scheme |-> "", Host |-> "", Path |-> ""]
    [] OTHER ->
         [err |-> TRUE, Scheme |-> "", Host |-> "", Path |-> ""]

\* A host entry as makeTargetMap reads it.
TargetHosts == [Name : HostNames, DefaultTarget : Targets]

TargetConfigs == SeqsUpTo(TargetHosts, MaxHosts)

\* Lines 215-223: a new map, then one assignment per entry whose target is
\* not empty and parses, under the entry's name as configured; a later entry
\* of the same name overwrites an earlier one.
RECURSIVE makeTargetMap(_)
makeTargetMap(hs) ==
  IF hs = <<>> THEN EmptyMap
  ELSE LET n == Len(hs)
           h == hs[n]
           m == makeTargetMap(SubSeq(hs, 1, n - 1))
           u == Parse(h.DefaultTarget)
       IN IF h.DefaultTarget # "" /\ ~u.err
          THEN [k \in DOMAIN m \cup {h.Name} |-> IF k = h.Name THEN u ELSE m[k]]
          ELSE m

\* Requests as a listener receives them: the Host header, a path, a query;
\* the URL of a server request carries no scheme and no authority.
Requests ==
  [Host : RequestHosts, Scheme : {""}, URLHost : {""}, Path : {"/", "/x"}, RawQuery : {"", "q=1"}]

\* Director without strings.ToLower: the host is looked up as received.
Director_NoLower(r) ==
  IF r.Host \in DOMAIN targetMap
  THEN [r EXCEPT !.Scheme = targetMap[r.Host].Scheme, !.URLHost = targetMap[r.Host].Host]
  ELSE r

\* Lines 123-131: look the lowercased host up in s.targetMap; on a hit set
\* the scheme and the host of the URL.
Director(r) ==
  LET hostName == ToLower(r.Host)
  IN IF hostName \in DOMAIN targetMap
     THEN [r EXCEPT !.Scheme = targetMap[hostName].Scheme,
                    !.URLHost = targetMap[hostName].Host]
     ELSE r

\* Line 119, StartServer building the registry from the configuration.
Service_makeTargetMap ==
  /\ step = "config"
  /\ targetMap' = makeTargetMap(hosts)
  /\ step' = "built"
  /\ UNCHANGED <<lifeVars, hosts, req, outreq, loaderVars, fileVars, proxyVars>>

\* The proxy serving a request: it hands a copy of the request to the
\* Director.
ServeHTTP ==
  /\ step = "built"
  /\ \E r \in Requests :
       /\ req' = r
       /\ outreq' = Director(r)
  /\ step' = "directed"
  /\ UNCHANGED <<lifeVars, hosts, targetMap, loaderVars, fileVars, proxyVars>>

TargetInit ==
  /\ LifeInit
  /\ step = "config"
  /\ hosts \in TargetConfigs
  /\ TargetIdle
  /\ LoaderIdle
  /\ FileIdle
  /\ ProxyIdle

TargetNext ==
  \/ Service_makeTargetMap
  \/ ServeHTTP

TargetSpec == TargetInit /\ [][TargetNext]_vars

----------------------------------------------------------------------------
\* The TLS Material Loader, as startTlsServer runs it.

\* Line 201: the entry is TLS-enabled and names both files.
Complete(h) == h.EnableTLS /\ h.hasCert /\ h.hasKey

\* loadTLSConfig_Step giving up at the first pair that fails to load.
loadTLSConfig_Step_Abort ==
  /\ step = "load"
  /\ hostIdx <= Len(hosts)
  /\ LET h == hosts[hostIdx]
     IN IF Complete(h) /\ ~h.loadable
        THEN /\ warnings' = Append(warnings, hostIdx)
             /\ hostIdx' = Len(hosts) + 1
             /\ UNCHANGED certificates
        ELSE /\ certificates' = IF Complete(h) THEN Append(certificates, hostIdx)
                                                ELSE certificates
             /\ hostIdx' = hostIdx + 1
             /\ UNCHANGED warnings
  /\ UNCHANGED <<lifeVars, step, hosts, targetVars, fileVars, proxyVars>>

\* Lines 200-209, one round of the loop: an entry that is TLS-enabled and
\* names both files is loaded; a failure is a warning, a success is appended;
\* any other entry is passed over.
loadTLSConfig_Step ==
  /\ step = "load"
  /\ hostIdx <= Len(hosts)
  /\ LET h == hosts[hostIdx]
     IN IF Complete(h)
        THEN IF h.loadable
             THEN /\ certificates' = Append(certificates, hostIdx)
                  /\ UNCHANGED warnings
             ELSE /\ warnings' = Append(warnings, hostIdx)
                  /\ UNCHANGED certificates
        ELSE UNCHANGED <<certificates, warnings>>
  /\ hostIdx' = hostIdx + 1
  /\ UNCHANGED <<lifeVars, step, hosts, targetVars, fileVars, proxyVars>>

\* Line 211: the loop is over, loadTLSConfig returns.
loadTLSConfig_Return ==
  /\ step = "load"
  /\ hostIdx > Len(hosts)
  /\ step' = "loaded"
  /\ UNCHANGED <<lifeVars, hosts, targetVars, loaderVars, fileVars, proxyVars>>

\* Lines 253-259: with no certificate the TLS flag is cleared and the task
\* leaves; with one it goes on to make the server and bind.
startTlsServer_Branch ==
  /\ step = "loaded"
  /\ IF Len(certificates) = 0
     THEN /\ serverRunning' = [serverRunning EXCEPT ![TLS] = FALSE]
          /\ step' = "skipped"
     ELSE /\ step' = "listen"
          /\ UNCHANGED serverRunning
  /\ UNCHANGED <<callerPc, nCalls, curKind, ret, wg, server, pc, bind, lst,
                 inShutdown, emitted, hostsTask, pre, hosts, targetVars, loaderVars,
                 fileVars, proxyVars>>

\* startTlsServer has just called loadTLSConfig (line 251, entering line 199).
LoaderInit ==
  /\ LifeInit
  /\ step = "load"
  /\ hosts \in ConfigHosts
  /\ TargetIdle
  /\ hostIdx = 1
  /\ certificates = <<>>
  /\ warnings = <<>>
  /\ FileIdle
  /\ ProxyIdle

LoaderNext ==
  \/ loadTLSConfig_Step
  \/ loadTLSConfig_Return
  \/ startTlsServer_Branch

LoaderSpec == LoaderInit /\ [][LoaderNext]_vars

----------------------------------------------------------------------------
\* The hosts file (package hostsFile).

\* Lines the hosts file holds before the call, and domains to register.
FileLines == {<<"127.0.0.1", "localhost">>, <<"::1", "localhost">>}

Domains == {"app.test", "api.test"}

\* Line 19: the line written to the buffer for a domain.
MarkerLine(d) == <<"127.0.0.1", d, "# Auto generated by local proxy">>

\* Lines 17-23: the buffer starts with a line break; one line per domain is
\* written to it, in list order (a write to a bytes.Buffer returns no error).
RECURSIVE Buffer(_)
Buffer(ds) ==
  IF ds = <<>> THEN <<"\n">>
  ELSE Append(Buffer(SubSeq(ds, 1, Len(ds) - 1)), MarkerLine(ds[Len(ds)]))

\* Lines 10-13: the file cannot be opened; the error is returned.
WriteHostsFile_OpenError ==
  /\ step = "write"
  /\ step' = "error"
  /\ UNCHANGED <<lifeVars, hosts, targetVars, loaderVars, fileVars, proxyVars>>

\* Lines 10-25: the file is opened for appending, the buffer is filled, nil
\* is returned and the deferred Close runs; the buffer is written nowhere.
WriteHostsFile_Return ==
  /\ step = "write"
  /\ data' = Buffer(domains)
  /\ step' = "nil"
  /\ UNCHANGED <<lifeVars, hosts, targetVars, loaderVars, hostsFile, prevHostsFile,
                 domains, proxyVars>>

\* WriteHostsFile(domains) has just been called.
FileInit ==
  /\ LifeInit
  /\ step = "write"
  /\ hosts = <<>>
  /\ TargetIdle
  /\ LoaderIdle
  /\ hostsFile \in SeqsUpTo(FileLines, MaxDomains)
  /\ prevHostsFile = hostsFile
  /\ domains \in SeqsUpTo(Domains, MaxDomains)
  /\ data = <<>>
  /\ ProxyIdle

FileNext ==
  \/ WriteHostsFile_OpenError
  \/ WriteHostsFile_Return

FileSpec == FileInit /\ [][FileNext]_vars

----------------------------------------------------------------------------
\* The requests of the running listeners.  A request is accepted by a
\* listener that is serving, handed to the Director, forwarded, and answered
\* by the upstream or, when forwarding fails, by the ErrorHandler.  The
\* Director of every proxy reads the field s.targetMap when the request is
\* handled (line 126), so the registry is followed here as the StartServer
\* call that made the map the field points to.  That Shutdown waits for the
\* requests in flight is left out: a request may outlive ShutdownServer.  The
\* hosts-file goroutine, which shares nothing with a request, is spawned and
\* not followed.

\* What the transport returns when forwarding fails.
ForwardErrors == {"dial tcp: connection refused"}

\* ErrorHandler without the error text in the body.
ErrorHandler_NoText(err) ==
  [ status |-> 502,
    body   |-> <<"<div style=\"text-align: center\">", "<h2>Bad Gateway</h2>", "<p>", "</p>">> ]

\* Lines 133-137: status 502 and the formatted body, as its pieces.
ErrorHandler(err) ==
  [ status |-> 502,
    body   |-> <<"<div style=\"text-align: center\">", "<h2>Bad Gateway</h2>", "<p>", err, "</p>">> ]

\* Lines 113-119, up to line 215: the call begins, the hosts-file goroutine
\* is spawned and s.targetMap is pointed to a new map, which lines 216-223
\* then fill.
StartServer_MakeTargetMap ==
  /\ nCalls < MaxProxyCalls
  /\ BeginCall("start")
  /\ hostsTask' = "pending"
  /\ mapOwner' = nCalls + 1
  /\ callerPc' = "mkmap"
  /\ UNCHANGED <<wg, serverRunning, server, pc, bind, lst, inShutdown, emitted,
                 step, hosts, targetVars, loaderVars, fileVars, slots>>

\* Lines 216-147: the map is filled, the proxy is made, wg.Add(2), the two
\* startup goroutines are spawned.
StartServer_Spawn ==
  /\ callerPc = "mkmap"
  /\ wg' = [wg EXCEPT ![nCalls] = WgParticipants]
  /\ pc' = [pc EXCEPT ![HTTP, nCalls] = "new", ![TLS, nCalls] = "new"]
  /\ callerPc' = "wait"
  /\ UNCHANGED <<nCalls, curKind, ret, serverRunning, server, bind, lst, inShutdown,
                 emitted, hostsTask, pre, dataVars>>

\* Serve hands a connection of the listener of server (p, c) to the proxy;
\* the request takes the first free slot.
ServeHTTP_Accept(r, p, c) ==
  /\ slots[r].stage = "free"
  /\ r = "r2" => slots["r1"].stage # "free"
  /\ pc[p, c] = "serving"
  /\ lst[p, c] = "open"
  /\ slots' = [slots EXCEPT ![r] = [FreeSlot EXCEPT !.stage = "director", !.c = c]]
  /\ UNCHANGED <<lifeVars, step, hosts, targetVars, loaderVars, fileVars, mapOwner>>

\* Lines 124-130: the Director reads s.targetMap and looks the host up in
\* the map it finds there; the request goes on to the transport.
ServeHTTP_Director(r) ==
  /\ slots[r].stage = "director"
  /\ slots' = [slots EXCEPT ![r] = [FreeSlot EXCEPT !.stage = "forward"]]
  /\ UNCHANGED <<lifeVars, step, hosts, targetVars, loaderVars, fileVars, mapOwner>>

\* The round trip to the upstream: its response is passed on and the request
\* is over, or it fails and the ErrorHandler answers (lines 133-137).
ServeHTTP_Forward(r) ==
  /\ slots[r].stage = "forward"
  /\ \E err \in {""} \cup ForwardErrors :
       slots' = [slots EXCEPT ![r] =
                   IF err = ""
                   THEN FreeSlot
                   ELSE [FreeSlot EXCEPT !.stage = "done", !.err = err,
                                         !.status = ErrorHandler(err).status,
                                         !.body = ErrorHandler(err).body]]
  /\ UNCHANGED <<lifeVars, step, hosts, targetVars, loaderVars, fileVars, mapOwner>>

\* The response of the ErrorHandler was sent; the request is over.
ServeHTTP_Done(r) ==
  /\ slots[r].stage = "done"
  /\ slots' = [slots EXCEPT ![r] = FreeSlot]
  /\ UNCHANGED <<lifeVars, step, hosts, targetVars, loaderVars, fileVars, mapOwner>>

ProxyNext ==
  \/ StartServer_MakeTargetMap
  \/ StartServer_Spawn
  \/ StartServer_Return
  \/ \E c \in Calls : startHttpServer_Listen(c)
  \/ \E c \in Calls : startTlsServer_Skip(c)
  \/ \E c \in Calls : startTlsServer_Listen(c)
  \/ \E p \in Proto, c \in Calls : SetRunning(p, c)
  \/ \E p \in Proto, c \in Calls : ServeBegin(p, c)
  \/ \E p \in Proto, c \in Calls : ServeReturn(p, c)
  \/ \E p \in Proto, c \in Calls : ClearRunning(p, c)
  \/ nCalls < MaxProxyCalls /\ ShutdownServer_Http
  \/ ShutdownServer_Tls
  \/ ShutdownServer_Return
  \/ \E r \in ReqIds, p \in Proto, c \in Calls : ServeHTTP_Accept(r, p, c)
  \/ \E r \in ReqIds : ServeHTTP_Director(r)
  \/ \E r \in ReqIds : ServeHTTP_Forward(r)
  \/ \E r \in ReqIds : ServeHTTP_Done(r)

ProxySpec == Init /\ [][ProxyNext]_vars

----------------------------------------------------------------------------
\* Vocabulary of the properties.

\* StartServer is about to return: wg.Wait() no longer blocks.
ReturnPoint == callerPc = "wait" /\ wg[nCalls] = 0

\* ShutdownServer has handled both protocols and is about to return.
ShutdownDone == callerPc = "shutRet"

\* The bind of protocol p by the current call succeeded and its serve loop
\* has not ended.
Up(p) == bind[p, nCalls] = "bound" /\ pc[p, nCalls] \in {"serve", "serving"}

\* No startup or shutdown step is in progress: no lifecycle call is running
\* and every goroutine either has ended or serves on an open listener.
Quiescent ==
  /\ callerPc = "idle"
  /\ \A p \in Proto, c \in Calls :
       \/ pc[p, c] \in {"none", "end"}
       \/ pc[p, c] = "serving" /\ lst[p, c] = "open"

\* Nothing was running when the current call began.
NothingRunning == \A p \in Proto : ~pre.running[p] /\ ~pre.open[p]

----------------------------------------------------------------------------
\* C1: outside the windows in which a startup or shutdown step is in
\* progress, a protocol's running flag is true if and only if a listener
\* bound by this Service for that protocol is open (bound, not shut down, not
\* failed).
C1_RunningIffListening ==
  Quiescent => \A p \in Proto : serverRunning[p] <=> AnyOpen(p)

\* C2: StartServer never returns while a bind attempt is pending: outside a
\* running StartServer no startup goroutine is before or just after its bind,
\* a goroutine in that position belongs to the call in progress (so a status
\* query sees "not yet running" only before the return), and at the return
\* the HTTP task is bound or failed and the TLS task is bound, failed or
\* skipped.
C2_ReturnAfterBinds ==
  /\ \A p \in Proto, c \in Calls :
       pc[p, c] \in {"new", "bound"} => callerPc = "wait" /\ c = nCalls
  /\ ReturnPoint =>
       /\ bind[HTTP, nCalls] \in {"bound", "failed"}
       /\ bind[TLS, nCalls] \in {"bound", "failed", "skipped"}

\* C2 witness: StartServer is about to return with HTTP bound and serving
\* and the TLS bind failed.
C2_Witness ==
  /\ ReturnPoint
  /\ Up(HTTP)
  /\ bind[TLS, nCalls] = "failed"

\* C4: StartServer returns true if a protocol of this call is bound and
\* running, and false if both protocols of this call failed to bind or were
\* skipped.
C4_ReturnValue ==
  ReturnPoint =>
    /\ (\E p \in Proto : Up(p)) => StartServerResult
    /\ (\A p \in Proto : bind[p, nCalls] \in {"failed", "skipped"}) => ~StartServerResult

\* C5: when a protocol's bind fails, its running flag is false once
\* StartServer returns and one error was reported for that protocol.
C5_FailedBindFlagFalse ==
  ReturnPoint =>
    \A p \in Proto :
      bind[p, nCalls] = "failed" => ~serverRunning[p] /\ emitted[p, nCalls] = 1

\* C6: when one protocol's bind fails and the other's succeeds, the other is
\* bound, serving and flagged running at StartServer's return, and the error
\* is reported for the failing protocol only.
C6_OtherProtocolStarts ==
  ReturnPoint =>
    \A p \in Proto :
      bind[Other(p), nCalls] = "failed" /\ Up(p) =>
        /\ lst[p, nCalls] = "open"
        /\ serverRunning[p]
        /\ emitted[p, nCalls] = 0
        /\ emitted[Other(p), nCalls] = 1

\* C7: with zero certificates no TLS bind is attempted and no error is
\* reported for TLS, tlsRunning is false at the return, and httpRunning at the
\* return is decided by the HTTP bind alone.
C7_SkippedTls ==
  ReturnPoint /\ bind[TLS, nCalls] = "skipped" =>
    /\ lst[TLS, nCalls] = "none"
    /\ emitted[TLS, nCalls] = 0
    /\ ~serverRunning[TLS]
    /\ Up(HTTP) => serverRunning[HTTP]
    /\ bind[HTTP, nCalls] = "failed" => ~serverRunning[HTTP]

----------------------------------------------------------------------------
\* C3: under fair scheduling of the startup goroutines, once the bind calls
\* return StartServer returns, whatever the outcomes, and without waiting for
\* a serve loop to end.
C3_StartServerReturns == (callerPc = "wait") ~> (callerPc = "idle")

\* C3 witness: StartServer has returned true and both serve loops of the call
\* are still running.
C3_Witness ==
  /\ callerPc = "idle"
  /\ curKind = "start"
  /\ ret = "true"
  /\ \A p \in Proto : pc[p, nCalls] = "serving" /\ lst[p, nCalls] = "open"

\* C8, as claimed: after ShutdownServer both flags are false; the second of
\* two calls in a row, and a call made while only HTTP is running, report no
\* error.
C8_ShutdownWithoutError ==
  ShutdownDone =>
    /\ \A p \in Proto : ~serverRunning[p]
    /\ pre.shutdown => \A p \in Proto : emitted[p, nCalls] = 0
    /\ pre.running[HTTP] /\ ~pre.running[TLS] /\ ~pre.open[TLS] =>
         \A p \in Proto : emitted[p, nCalls] = 0

\* C8, amended: after ShutdownServer both flags are false; the second of two
\* calls in a row reports no listener error; an error is reported only for a
\* protocol of which a listener was open when the call began, and at most
\* once (so a call made while only HTTP is running reports none for TLS).
C8_ShutdownIdempotent ==
  ShutdownDone =>
    /\ \A p \in Proto : ~serverRunning[p]
    /\ pre.shutdown => \A p \in Proto : emitted[p, nCalls] = 0
    /\ \A p \in Proto : emitted[p, nCalls] <= (IF pre.open[p] THEN 1 ELSE 0)

\* C8 witness: ShutdownServer, called while only HTTP was running, is about
\* to return.
C8_Witness ==
  /\ ShutdownDone
  /\ pre.running[HTTP] /\ pre.open[HTTP]
  /\ ~pre.running[TLS] /\ ~pre.open[TLS]

\* C9, as claimed: ShutdownServer called when nothing is running changes no
\* flag, closes no listener and sends no error to the frontend.
C9_NoopReportsNothing ==
  curKind = "shutdown" /\ NothingRunning =>
    /\ \A p \in Proto : ~serverRunning[p] /\ ~AnyOpen(p)
    /\ \A p \in Proto : emitted[p, nCalls] = 0
    /\ hostsTask # "failed"

\* C9, amended: ShutdownServer called when nothing is running changes no
\* flag, closes no listener and reports no shutdown error (the hosts-file
\* de-registration it spawns may still report one).
C9_NoopOnLifecycle ==
  curKind = "shutdown" /\ NothingRunning =>
    /\ \A p \in Proto : ~serverRunning[p] /\ ~AnyOpen(p)
    /\ \A p \in Proto : emitted[p, nCalls] = 0

\* C9 witness: ShutdownServer is about to return, nothing was running when it
\* began, and it did call Shutdown on both server handles.
C9_Witness ==
  /\ ShutdownDone
  /\ NothingRunning
  /\ \A p \in Proto : server[p] # 0 /\ inShutdown[p, server[p]]

\* C10: when a serve loop ends with a listener error, the error is reported
\* once and the flag is then cleared; ending with ErrServerClosed reports
\* nothing; neither step touches the other protocol's flag or listeners or
\* starts a goroutine, and a goroutine that has ended stays ended.
C10_ServeLoopEnd ==
  [][\A p \in Proto, c \in Calls :
       LET frame == /\ serverRunning'[Other(p)] = serverRunning[Other(p)]
                    /\ \A d \in Calls : lst'[Other(p), d] = lst[Other(p), d]
                    /\ \A q \in Proto, d \in Calls :
                         pc'[q, d] = "new" => pc[q, d] = "new"
       IN /\ pc[p, c] = "serving" /\ pc'[p, c] = "clear" =>
               /\ emitted[p, c] = 0
               /\ emitted'[p, c] = IF lst[p, c] = "open" THEN 1 ELSE 0
               /\ lst'[p, c] = "closed"
               /\ frame
          /\ pc[p, c] = "serve" /\ pc'[p, c] = "clear" =>
               /\ emitted'[p, c] = 0
               /\ frame
          /\ pc[p, c] = "clear" /\ pc'[p, c] = "end" =>
               /\ ~serverRunning'[p]
               /\ emitted'[p, c] <= emitted[p, c]
               /\ frame
          /\ pc[p, c] = "end" => pc'[p, c] = "end"
    ]_vars

\* C10 witness: a serve loop of the current call ended with a listener error,
\* the error was reported and the flag cleared.
C10_Witness ==
  \E p \in Proto :
    /\ callerPc = "wait"
    /\ pc[p, nCalls] = "end"
    /\ bind[p, nCalls] = "bound"
    /\ emitted[p, nCalls] = 1
    /\ ~serverRunning[p]

----------------------------------------------------------------------------
\* The entries of the configuration that the registry is to hold: the target
\* is not empty and parses as an absolute URL.
ValidTarget(t) == t # "" /\ ~Parse(t).err /\ Parse(t).Scheme # ""

\* C11: the key set of the Target Registry built by StartServer is exactly
\* the set of lowercased names of the entries whose defaultTarget is not
\* empty and parses as an absolute URL.
C11_RegistryKeys ==
  step \in {"built", "directed"} =>
    DOMAIN targetMap =
      {ToLower(hosts[i].Name) : i \in {j \in DOMAIN hosts : ValidTarget(hosts[j].DefaultTarget)}}

\* C12: the Director lowercases the request's host and looks it up in the
\* registry: on a hit the outgoing scheme and authority are the target's and
\* host header, path and query are as received; on a miss the outgoing
\* request is the request as received.
C12_DirectorRewrites ==
  step = "directed" =>
    LET k == ToLower(req.Host)
    IN IF k \in DOMAIN targetMap
       THEN /\ outreq.Scheme = targetMap[k].Scheme
            /\ outreq.URLHost = targetMap[k].Host
            /\ outreq.Host = req.Host
            /\ outreq.Path = req.Path
            /\ outreq.RawQuery = req.RawQuery
       ELSE outreq = req

\* C12 witness: a request whose host has uppercase letters was sent to the
\* target registered under the lowercase name, with its path and query.
C12_Witness ==
  /\ step = "directed"
  /\ req.Host = "App.Test"
  /\ "app.test" \in DOMAIN targetMap
  /\ outreq.Scheme = "https"
  /\ outreq.URLHost = "sec.test"
  /\ outreq.Path = "/x"
  /\ outreq.RawQuery = "q=1"

----------------------------------------------------------------------------
\* The members of a sequence.
Range(f) == {f[i] : i \in DOMAIN f}

\* The entries before position n that are TLS-enabled and name both files,
\* and those of them whose pair does not load.
CompleteBefore(n) == {i \in DOMAIN hosts : i < n /\ Complete(hosts[i])}

FailingBefore(n) == {i \in CompleteBefore(n) : ~hosts[i].loadable}

\* C13: of the N entries that are TLS-enabled and name both files, M fail to
\* load: the certificate set has exactly N-M certificates (the ones that
\* load), exactly M warnings are emitted, one per failing entry, and this
\* holds after every round of the loop, so a failure does not end the loop;
\* the loader always returns.
C13_LoaderCounts ==
  step \in {"load", "loaded", "skipped", "listen"} =>
    /\ Len(certificates) = Cardinality(CompleteBefore(hostIdx)) - Cardinality(FailingBefore(hostIdx))
    /\ Range(certificates) = CompleteBefore(hostIdx) \ FailingBefore(hostIdx)
    /\ Len(warnings) = Cardinality(FailingBefore(hostIdx))
    /\ Range(warnings) = FailingBefore(hostIdx)
    /\ step # "load" => hostIdx = Len(hosts) + 1 /\ Len(certificates) = loadTLSConfig(hosts)

\* C13 witness: the loader returned; the first entry failed to load and was
\* warned about, the second was loaded after it.
C13_Witness ==
  /\ step = "loaded"
  /\ Len(hosts) = 2
  /\ warnings = <<1>>
  /\ certificates = <<2>>

\* C14: an entry with enableTLS=true whose key file path or certificate file
\* path is empty is not in the certificate set and a warning is emitted for
\* it; if it is the only TLS-enabled entry, tlsRunning is false once the TLS
\* start is over.
C14_IncompleteEntryWarned ==
  step \in {"loaded", "skipped", "listen"} =>
    \A i \in DOMAIN hosts :
      hosts[i].EnableTLS /\ ~(hosts[i].hasCert /\ hosts[i].hasKey) =>
        /\ i \notin Range(certificates)
        /\ i \in Range(warnings)
        /\ (\A j \in DOMAIN hosts : hosts[j].EnableTLS => j = i) =>
             /\ step # "listen"
             /\ step = "skipped" => ~serverRunning[TLS]

----------------------------------------------------------------------------
\* C20: when WriteHostsFile(domains) returns without error the hosts file is
\* its previous content followed by one marker line per domain, in list
\* order; when it returns an error the previous content is unchanged.
C20_HostsFileAppended ==
  /\ step = "nil" =>
       hostsFile = prevHostsFile \o [i \in DOMAIN domains |-> MarkerLine(domains[i])]
  /\ step = "error" => hostsFile = prevHostsFile

----------------------------------------------------------------------------
\* The startup/serve task (p, c) is at a write of the running flag of p: at
\* line 241 or 273 (the bind succeeded) or at line 247 or 279 (the serve
\* loop ended).
AtWrite(p, c) == pc[p, c] \in {"bound", "clear"}

\* Nothing in GetServerStatus (lines 177-182) waits for anything: the caller
\* can read the flags whenever it is not inside a lifecycle call.
StatusReadable == callerPc = "idle"

\* C16: for each protocol no two tasks are at a write of the running flag in
\* the same state, and no task is at a write in a state in which
\* GetServerStatus can read the flag.
C16_OneWriterPerFlag ==
  \A p \in Proto :
    /\ \A c \in Calls, d \in Calls : AtWrite(p, c) /\ AtWrite(p, d) => c = d
    /\ \A c \in Calls : AtWrite(p, c) => ~StatusReadable

\* C18: in StartServer, ShutdownServer, StartServer, from the moment the
\* second StartServer has bound a protocol and set its flag up to and
\* including its return, the flag is true unless the serve loop of the
\* second run has ended: the task left over from the first run does not
\* clear it.
C18_RestartKeepsFlag ==
  callerPc = "wait" /\ pre.shutdown =>
    \A p \in Proto : Up(p) => serverRunning[p]

\* C19: every open listener on which this Service serves is the listener of
\* the handle the Service holds for that protocol, and after ShutdownServer
\* has returned the Service serves on no open listener.
C19_OpenListenerIsHeld ==
  /\ \A p \in Proto, c \in Calls :
       lst[p, c] = "open" /\ pc[p, c] = "serving" => server[p] = c
  /\ callerPc = "idle" /\ curKind = "shutdown" =>
       \A p \in Proto, c \in Calls : ~(lst[p, c] = "open" /\ pc[p, c] = "serving")

----------------------------------------------------------------------------
\* C15: when forwarding a request fails, that request is answered with status
\* 502 and a body holding the heading "Bad Gateway" and the error text; the
\* step changes neither running flag, closes no listener and leaves every
\* other request in flight as it is.
C15_ForwardError ==
  [][\A r \in ReqIds :
       slots[r].stage = "forward" /\ slots'[r].stage = "done" /\ slots'[r].err # "" =>
         /\ slots'[r].status = 502
         /\ "<h2>Bad Gateway</h2>" \in Range(slots'[r].body)
         /\ slots'[r].err \in Range(slots'[r].body)
         /\ serverRunning' = serverRunning
         /\ lst' = lst
         /\ \A q \in ReqIds \ {r} : slots'[q] = slots[q]
    ]_vars

\* C15 witness: a request was answered 502 while the listener that accepted
\* it is open and flagged running and another request is being forwarded.
C15_Witness ==
  /\ slots["r1"].stage = "done"
  /\ slots["r1"].status = 502
  /\ slots["r2"].stage = "forward"
  /\ serverRunning[HTTP]
  /\ pc[HTTP, nCalls] = "serving"
  /\ lst[HTTP, nCalls] = "open"

\* C17: no Director lookup is pending while StartServer writes the registry,
\* and the registry a pending lookup will read is the one made by the
\* StartServer call that started the listener of the request.
C17_RegistryImmutable ==
  \A r \in ReqIds :
    slots[r].stage = "director" =>
      /\ callerPc # "mkmap"
      /\ mapOwner = slots[r].c

====
